---------------------------- MODULE Spec2Model ----------------------------
(***************************************************************************)
(* Model of the netplan configuration store of opensight-network-rs:       *)
(* src/src/netplan.rs (Netplan: load_config, save_config, apply,           *)
(* apply_with_diff, save_and_apply) and the HTTP handlers of               *)
(* src/src/routes/ethernet.rs that drive it under the NetplanStore mutex.  *)
(*                                                                         *)
(* The external renderer (the netplan binary) is a black box: each of its  *)
(* invocations either exits non-zero or exits zero with well-formed YAML,  *)
(* chosen nondeterministically.  A Rust panic (unwrap/expect on a failure) *)
(* is an outcome of its own, "panic", distinct from a returned error.      *)
(***************************************************************************)
EXTENDS Integers, Sequences, FiniteSets, TLC

VARIABLES
    file,       \* content of /etc/netplan/01-network-conf.yaml
    bak,        \* content of the backup slot <path>.bak
    pc,         \* position of the caller inside save_and_apply / apply_with_diff
    op,         \* entry point that was called: "none", "save_and_apply", "apply_with_diff"
    arg,        \* the Network handed to save_and_apply
    saved,      \* what save_config returned inside save_and_apply: "none", "ok", "err"
    waited,     \* loop variable _waited of apply_with_diff
    polls,      \* number of get_diff calls made by the polling loop
    sleeps,     \* number of one-second sleeps made by the polling loop
    diff,       \* what the loop's most recent get_diff returned
    there_are_differences,
    cmdFailed,  \* some renderer invocation of this run exited non-zero
    onlyEth0Dhcp4, \* every non-empty diff polled so far was exactly {eth0: missing_dhcp4_address: true}
    result,     \* what the entry point returned
    lock,       \* NetplanStore.netplan: holder and poison flag
    req,        \* the HTTP requests in flight, one record per request
    prev,       \* what the last store operation called on its own found: file, inputs
    dev,        \* an Ethernet value and the routes document written from it
    obs         \* the renderer's last outputs and what the store made of them

engineVars == <<pc, op, arg, saved, waited, polls, sleeps, diff,
                there_are_differences, cmdFailed, onlyEth0Dhcp4, result>>
routeVars == <<lock, req>>
unitVars == <<prev, dev, obs>>
vars == <<file, bak, pc, op, arg, saved, waited, polls, sleeps, diff,
          there_are_differences, cmdFailed, onlyEth0Dhcp4, result, lock, req,
          prev, dev, obs>>

---------------------------------------------------------------------------
(* Data model *)

\* interfaces the renderer may report in its diff
LiveIfaces == {"eth0", "eth1"}

\* interfaces that may be configured in the persisted file
ConfigIfaces == {"eth0"}

\* Option<bool> of Ethernet.accept_ra
AcceptRa == {"none", "true", "false"}

EmptyMap == [x \in {} |-> x]

\* the persisted settings of an in-memory Ethernet, with its name
Ethernets == [name : ConfigIfaces, dhcp4 : BOOLEAN, dhcp6 : BOOLEAN, accept_ra : AcceptRa]

EthernetNew(n) == [name |-> n, dhcp4 |-> FALSE, dhcp6 |-> FALSE, accept_ra |-> "none"]

NetworkNew == [version |-> 2, renderer |-> "NetworkManager", ethernets |-> EmptyMap]

\* in-memory Networks: every ethernet is stored under its own name
Networks ==
    { [version |-> 2, renderer |-> "NetworkManager", ethernets |-> m] :
        m \in { f \in UNION { [D -> Ethernets] : D \in SUBSET ConfigIfaces } :
                    \A n \in DOMAIN f : f[n].name = n } }

\* an insertion that leaves an entry of the same name as it is
AddEthernetIfAbsent(net, eth) ==
    [net EXCEPT !.ethernets =
        [n \in DOMAIN net.ethernets \cup {eth.name} |->
            IF n \in DOMAIN net.ethernets THEN net.ethernets[n] ELSE eth]]

\* Network::add_ethernet: self.ethernets.insert(ethernet.get_name(), ethernet)
add_ethernet(net, eth) ==
    [net EXCEPT !.ethernets =
        [n \in DOMAIN net.ethernets \cup {eth.name} |->
            IF n = eth.name THEN eth ELSE net.ethernets[n]]]

\* placeholder in records that carry no Network
NoNet == [version |-> 0, renderer |-> "none", ethernets |-> EmptyMap]

(* The file on disk.  kind "doc" is a YAML document; wrapped says whether  *)
(* its top level is the single key "network"; each ethernet body carries   *)
(* the persisted settings and allKeys, which says whether every key the    *)
(* decoder requires (routes, addresses, dynamic-addresses, system-state,   *)
(* beside dhcp4, dhcp6 and nameservers) is present.  kind "corrupt" is a   *)
(* partially written document.                                             *)
AbsentFile == [kind |-> "absent", wrapped |-> FALSE, version |-> 0,
               renderer |-> "none", ethernets |-> EmptyMap]
CorruptFile == [kind |-> "corrupt", wrapped |-> FALSE, version |-> 0,
                renderer |-> "none", ethernets |-> EmptyMap]

DiskEth(e, all) == [dhcp4 |-> e.dhcp4, dhcp6 |-> e.dhcp6,
                    accept_ra |-> e.accept_ra, allKeys |-> all]

\* serde_yml::to_string(&network): no "network" wrapper, the name and the
\* derived fields are skipped, empty routes and addresses are skipped
Serialize(net) ==
    [kind |-> "doc", wrapped |-> FALSE, version |-> net.version,
     renderer |-> net.renderer,
     ethernets |-> [n \in DOMAIN net.ethernets |-> DiskEth(net.ethernets[n], FALSE)]]

\* a document as an administrator provisions it: wrapped, every key present
Provisioned(net) ==
    [kind |-> "doc", wrapped |-> TRUE, version |-> net.version,
     renderer |-> net.renderer,
     ethernets |-> [n \in DOMAIN net.ethernets |-> DiskEth(net.ethernets[n], TRUE)]]

\* whether the adapted document decodes into a Network
Decodable(f) ==
    /\ f.kind = "doc"
    /\ f.wrapped
    /\ \A n \in DOMAIN f.ethernets : f.ethernets[n].allKeys

\* the Network the adapted document decodes into: the map key is injected as name
Decode(f) ==
    [version |-> f.version, renderer |-> f.renderer,
     ethernets |-> [n \in DOMAIN f.ethernets |->
        [name |-> n, dhcp4 |-> f.ethernets[n].dhcp4, dhcp6 |-> f.ethernets[n].dhcp6,
         accept_ra |-> f.ethernets[n].accept_ra]]]

\* the persisted settings of a Network, as a file would have to hold them
Settings(net) ==
    [version |-> net.version, renderer |-> net.renderer,
     ethernets |-> [n \in DOMAIN net.ethernets |->
        [dhcp4 |-> net.ethernets[n].dhcp4, dhcp6 |-> net.ethernets[n].dhcp6,
         accept_ra |-> net.ethernets[n].accept_ra]]]

---------------------------------------------------------------------------
(* Renderer output *)

\* a YAML value of a system_state key: absent, true or false
Tri == {"absent", "true", "false"}

\* a system_state fragment: the two DHCP flags and whether any other key is present
Fragments == [m4 : Tri, m6 : Tri, other : BOOLEAN]

\* a fragment with no key
EmptyFragment == [m4 |-> "absent", m6 |-> "absent", other |-> FALSE]

\* what the diff command prints for an interface: whether it has a
\* system_state key, and the mapping under that key
NoState == [hasState |-> FALSE, state |-> EmptyFragment]
IfaceReports == {NoState} \cup { [hasState |-> TRUE, state |-> fr] : fr \in Fragments }

\* the "interfaces" mapping printed by netplan status --diff-only
DiffOutputs(ifaces) == [ifaces -> IfaceReports]

NoDiffOutput == [n \in LiveIfaces |-> NoState]

NoDiff == [ok |-> FALSE, data |-> EmptyMap]

GotDiff(d) == [ok |-> TRUE, data |-> d]

\* get_diff: an entry for every interface printed with a system_state key
get_diff(exitOk, out) ==
    IF ~exitOk THEN NoDiff
    ELSE GotDiff([n \in { m \in DOMAIN out : out[m].hasState } |-> out[n].state])

\* what get_diff can return over the given interfaces
DiffsOver(ifaces) == { get_diff(TRUE, o).data : o \in DiffOutputs(ifaces) }

Diffs == DiffsOver(LiveIfaces)

\* the diffs that report configured interfaces only
ConfigDiffs == DiffsOver(ConfigIfaces)

\* outcomes of the file operations of save_config
IoOutcomes == {"ok", "backup_fail", "write_fail", "write_partial"}

---------------------------------------------------------------------------
(* Netplan *)

SECONDS_TO_WAIT == 15

\* a collection that takes every interface of the diff for a DHCP one
FlagsEveryInterface(data) == DOMAIN data

interfaces_with_misssing_dhcp_address(data) ==
    { e \in DOMAIN data :
        IF data[e].m4 # "absent"
        THEN data[e].m4 = "true"
        ELSE data[e].m6 # "absent" /\ data[e].m6 = "true" }

\* an expectation that forgets dhcp4
ExpectingByDhcp6Only(net) ==
    { n \in DOMAIN net.ethernets :
        net.ethernets[n].dhcp6 /\ net.ethernets[n].accept_ra = "true" }

\* an expectation that takes dhcp6 alone for enough
ExpectingIgnoresAcceptRa(net) ==
    { n \in DOMAIN net.ethernets :
        net.ethernets[n].dhcp4 \/ net.ethernets[n].dhcp6 }

interfaces_expecting_dhcp_address(net) ==
    { n \in DOMAIN net.ethernets :
        \/ net.ethernets[n].dhcp4
        \/ /\ net.ethernets[n].dhcp6
           /\ net.ethernets[n].accept_ra # "none"
           /\ net.ethernets[n].accept_ra = "true" }

\* restore_config: fs::copy(backup, canonical).unwrap()
restore_config(f, b) ==
    IF b.kind = "absent" THEN [res |-> "panic", file |-> f]
    ELSE [res |-> "ok", file |-> b]

backup_config(f, b, io) ==
    IF f.kind = "absent" \/ io = "backup_fail"
    THEN [res |-> "err", bak |-> b]
    ELSE [res |-> "ok", bak |-> f]

\* a save that overwrites the canonical file without copying it first
SaveWithoutBackup(f, b, net, io) ==
    IF io = "write_fail" THEN [res |-> "err", file |-> f, bak |-> b]
    ELSE IF io = "write_partial" THEN [res |-> "err", file |-> CorruptFile, bak |-> b]
    ELSE [res |-> "ok", file |-> Serialize(net), bak |-> b]

save_config(f, b, net, io) ==
    LET bk == backup_config(f, b, io) IN
    IF bk.res = "err" THEN [res |-> "err", file |-> f, bak |-> b]
    ELSE IF io = "write_fail" THEN [res |-> "err", file |-> f, bak |-> bk.bak]
    ELSE IF io = "write_partial" THEN [res |-> "err", file |-> CorruptFile, bak |-> bk.bak]
    ELSE [res |-> "ok", file |-> Serialize(net), bak |-> bk.bak]

\* a load that answers an undecodable file with a default Network
LoadRecoversDefault(f, b, statusOk, diffOk, hasEth0, io) ==
    IF ~statusOk \/ ~diffOk
    THEN [res |-> "err", net |-> NoNet, file |-> f, bak |-> b]
    ELSE IF f.kind # "absent" /\ Decodable(f)
    THEN [res |-> "ok", net |-> Decode(f), file |-> f, bak |-> b]
    ELSE [res |-> "ok", net |-> NetworkNew, file |-> f, bak |-> b]

\* load_config: statusOk and diffOk are the exits of the two renderer
\* invocations, hasEth0 and io the file system's answers at bootstrap
load_config(f, b, statusOk, diffOk, hasEth0, io) ==
    IF ~statusOk \/ ~diffOk
    THEN [res |-> "err", net |-> NoNet, file |-> f, bak |-> b]
    ELSE IF f.kind = "absent"
    THEN LET boot == IF hasEth0
                     THEN add_ethernet(NetworkNew,
                                       [EthernetNew("eth0") EXCEPT !.dhcp4 = TRUE])
                     ELSE NetworkNew
             sv == save_config(f, b, boot, io)
         IN  IF sv.res = "err"
             THEN [res |-> "err", net |-> NoNet, file |-> sv.file, bak |-> sv.bak]
             ELSE [res |-> "ok", net |-> boot, file |-> sv.file, bak |-> sv.bak]
    ELSE IF Decodable(f)
    THEN [res |-> "ok", net |-> Decode(f), file |-> f, bak |-> b]
    ELSE [res |-> "panic", net |-> NoNet, file |-> f, bak |-> b]

---------------------------------------------------------------------------
(* Results of the entry points *)

MsgApply == "There was a problem applying the current config."
MsgUnchecked == "There are unchecked system_state differences"
MsgNotApplied == "The config was not applied correctly."
MsgLoad == "There was an error while loading the config."

NoResult == [kind |-> "none", msg |-> "", net |-> NoNet]
Ok(net) == [kind |-> "ok", msg |-> "", net |-> net]
Err(msg) == [kind |-> "err", msg |-> msg, net |-> NoNet]
Panic == [kind |-> "panic", msg |-> "", net |-> NoNet]

\* the diff that reports only missing_dhcp4_address: true for eth0
Eth0Dhcp4Pending == [e \in {"eth0"} |-> [m4 |-> "true", m6 |-> "absent", other |-> FALSE]]


---------------------------------------------------------------------------
(* The caller of save_and_apply / apply_with_diff, one step per call made  *)

\* answers of the environment to one load_config; the bootstrap answers
\* (hasEth0, io) are read only when the file is absent
LoadInputs(f) ==
    { i \in [statusOk : BOOLEAN, diffOk : BOOLEAN, hasEth0 : BOOLEAN, io : IoOutcomes] :
        f.kind # "absent" => (~i.hasEth0 /\ i.io = "ok") }

Load(f, b, i) == load_config(f, b, i.statusOk, i.diffOk, i.hasEth0, i.io)

\* a loop that runs one iteration too many
InRangeInclusive(w) == w <= SECONDS_TO_WAIT

\* the range 0..SECONDS_TO_WAIT of the for loop
InRange(w) == w < SECONDS_TO_WAIT

\* the files the program can find at start: none, one an administrator
\* provisioned, or one written by an earlier save
InitFiles ==
    {AbsentFile} \cup { Provisioned(n) : n \in Networks }
                 \cup { Serialize(n) : n \in Networks }

IdleLock == [holder |-> "none", poisoned |-> FALSE]

\* no store operation has been called on its own yet
NoPrev == [file |-> AbsentFile, bak |-> AbsentFile, hasEth0 |-> FALSE, io |-> "ok"]

\* Option<BoundedU32<MIN, MAX>>
None == [some |-> FALSE, v |-> 0]
Some(v) == [some |-> TRUE, v |-> v]

\* no route handed in yet
NoRoute == [from |-> "none", to |-> "none", via |-> "none"]

\* the routes key of an ethernet body on disk: absent
NoRoutesKey == [shape |-> "none", entries |-> {}]

\* no input route parsed yet
NoParsed == [ok |-> FALSE, route |-> NoRoute]

\* Ethernet::new: no routes, no mtu; nothing written, handed in or returned yet
DeviceNew ==
    [routes |-> EmptyMap, before |-> EmptyMap, lastRoute |-> NoRoute, adds |-> 0,
     disk |-> NoRoutesKey,
     mtu |-> None, ipv6_mtu |-> None, made |-> None, lastMtu |-> 0,
     input |-> NoRoute, parsed |-> NoParsed,
     last |-> "none"]

\* a YAML mapping with no key
NoKeys == [k \in {} |-> {}]

\* what the status command prints for an interface: its type and the
\* addresses that carry flags, already in the form prefix+address+(flags)
NotEthernet == [type |-> "bridge", addresses |-> {}]
StatusEntries ==
    { NotEthernet,
      [type |-> "ethernet", addresses |-> {}],
      [type |-> "ethernet", addresses |-> {"2410.0.0.5(dhcp)"}] }

NoStatus == [n \in LiveIfaces |-> NotEthernet]

\* Ethernet::new, the fields of interest: the persisted dhcp4 and the two
\* derived fields
ObsEthernetNew(n) ==
    [name |-> n, dhcp4 |-> FALSE, dynamic_addresses |-> {}, system_state |-> {}]

\* nothing printed by the renderer, nothing loaded or saved yet
ObsIdle ==
    [last |-> "none", exitOk |-> TRUE, status |-> NoStatus, out |-> NoDiffOutput,
     bodies |-> EmptyMap, res |-> "none", loaded |-> EmptyMap, diff |-> EmptyMap,
     names |-> {}, eth |-> ObsEthernetNew("eth0"), written |-> NoKeys]

UnitIdle == prev = NoPrev /\ dev = DeviceNew /\ obs = ObsIdle

EngineIdle ==
    /\ pc = "idle" /\ op = "none" /\ arg = NoNet /\ saved = "none"
    /\ waited = 0 /\ polls = 0 /\ sleeps = 0 /\ diff = NoDiff
    /\ there_are_differences = FALSE /\ cmdFailed = FALSE
    /\ onlyEth0Dhcp4 = TRUE /\ result = NoResult

CallSaveAndApply(net) ==
    /\ pc = "idle"
    /\ pc' = "save" /\ op' = "save_and_apply" /\ arg' = net
    /\ UNCHANGED <<file, bak, saved, waited, polls, sleeps, diff,
                   there_are_differences, cmdFailed, onlyEth0Dhcp4, result>>
    /\ UNCHANGED <<routeVars, unitVars>>

CallApplyWithDiff ==
    /\ pc = "idle"
    /\ pc' = "apply" /\ op' = "apply_with_diff"
    /\ UNCHANGED <<file, bak, arg, saved, waited, polls, sleeps, diff,
                   there_are_differences, cmdFailed, onlyEth0Dhcp4, result>>
    /\ UNCHANGED <<routeVars, unitVars>>

\* save_and_apply, line 329: the result of save_config is dropped
save_and_apply_save(io) ==
    LET sv == save_config(file, bak, arg, io) IN
    /\ pc = "save"
    /\ file' = sv.file /\ bak' = sv.bak /\ saved' = sv.res
    /\ pc' = "apply"
    /\ UNCHANGED <<op, arg, waited, polls, sleeps, diff, there_are_differences,
                   cmdFailed, onlyEth0Dhcp4, result>>
    /\ UNCHANGED <<routeVars, unitVars>>

\* apply_with_diff, lines 78-81
ApplyOk ==
    /\ pc = "apply"
    /\ pc' = "poll" /\ waited' = 0
    /\ UNCHANGED <<file, bak, op, arg, saved, polls, sleeps, diff,
                   there_are_differences, cmdFailed, onlyEth0Dhcp4, result>>
    /\ UNCHANGED <<routeVars, unitVars>>

\* a failed apply that rolls the canonical file back
ApplyFailsAndRestores ==
    /\ pc = "apply"
    /\ pc' = "done" /\ result' = Err(MsgApply) /\ cmdFailed' = TRUE
    /\ file' = restore_config(file, bak).file
    /\ UNCHANGED <<bak, op, arg, saved, waited, polls, sleeps, diff,
                   there_are_differences, onlyEth0Dhcp4>>
    /\ UNCHANGED <<routeVars, unitVars>>

ApplyFails ==
    /\ pc = "apply"
    /\ pc' = "done" /\ result' = Err(MsgApply) /\ cmdFailed' = TRUE
    /\ UNCHANGED <<file, bak, op, arg, saved, waited, polls, sleeps, diff,
                   there_are_differences, onlyEth0Dhcp4>>
    /\ UNCHANGED <<routeVars, unitVars>>

\* line 114: get_diff failed
PollFails ==
    /\ pc = "poll"
    /\ polls' = polls + 1 /\ diff' = NoDiff
    /\ pc' = "done" /\ result' = Err(MsgNotApplied) /\ cmdFailed' = TRUE
    /\ UNCHANGED <<file, bak, op, arg, saved, waited, sleeps,
                   there_are_differences, onlyEth0Dhcp4>>
    /\ UNCHANGED <<routeVars, unitVars>>

\* a loop body that waits on every flagged drift, attributed to DHCP or not
VerdictWithoutSoftAccept(d, ld) ==
    IF DOMAIN d = {} THEN "converged"
    ELSE IF interfaces_with_misssing_dhcp_address(d) = {} THEN "unchecked"
    ELSE IF ld.res # "ok" THEN "panic"
    ELSE "retry"

\* the loop body's verdict on a diff, lines 87-112; ld is the result of the
\* load_config of line 100, which runs only when an interface is flagged
Verdict(d, ld) ==
    IF DOMAIN d = {} THEN "converged"
    ELSE IF interfaces_with_misssing_dhcp_address(d) = {} THEN "unchecked"
    ELSE IF ld.res # "ok" THEN "panic"
    ELSE IF interfaces_with_misssing_dhcp_address(d)
                \cap interfaces_expecting_dhcp_address(ld.net) # {} THEN "retry"
    ELSE "soft_accept"

Polled(d) ==
    /\ pc = "poll"
    /\ polls' = polls + 1
    /\ diff' = GotDiff(d)
    /\ onlyEth0Dhcp4' = (onlyEth0Dhcp4 /\ (DOMAIN d = {} \/ d = Eth0Dhcp4Pending))
    /\ UNCHANGED <<op, arg, saved, waited, sleeps>>
    /\ UNCHANGED <<routeVars, unitVars>>

PollConverged(d) ==
    /\ pc = "poll"
    /\ Verdict(d, Load(file, bak, CHOOSE i \in LoadInputs(file) : TRUE)) = "converged"
    /\ Polled(d)
    /\ there_are_differences' = FALSE
    /\ pc' = "reload"
    /\ UNCHANGED <<file, bak, cmdFailed, result>>

PollUnchecked(d) ==
    /\ pc = "poll"
    /\ Verdict(d, Load(file, bak, CHOOSE i \in LoadInputs(file) : TRUE)) = "unchecked"
    /\ Polled(d)
    /\ there_are_differences' = TRUE
    /\ pc' = "done" /\ result' = Err(MsgUnchecked)
    /\ UNCHANGED <<file, bak, cmdFailed>>

\* line 100: load_config().unwrap() on an error or a decode failure
PollLoadPanics(d, i) ==
    LET ld == Load(file, bak, i) IN
    /\ pc = "poll"
    /\ Verdict(d, ld) = "panic"
    /\ Polled(d)
    /\ there_are_differences' = TRUE
    /\ file' = ld.file /\ bak' = ld.bak
    /\ cmdFailed' = (cmdFailed \/ ~i.statusOk \/ ~i.diffOk)
    /\ pc' = "done" /\ result' = Panic

PollRetry(d, i) ==
    LET ld == Load(file, bak, i) IN
    /\ pc = "poll"
    /\ Verdict(d, ld) = "retry"
    /\ Polled(d)
    /\ there_are_differences' = TRUE
    /\ file' = ld.file /\ bak' = ld.bak
    /\ pc' = "sleep"
    /\ UNCHANGED <<cmdFailed, result>>

PollSoftAccept(d, i) ==
    LET ld == Load(file, bak, i) IN
    /\ pc = "poll"
    /\ Verdict(d, ld) = "soft_accept"
    /\ Polled(d)
    /\ there_are_differences' = FALSE
    /\ file' = ld.file /\ bak' = ld.bak
    /\ pc' = "reload"
    /\ UNCHANGED <<cmdFailed, result>>

\* lines 107-108: sleep one second, continue with the next value of the range
Sleep ==
    /\ pc = "sleep"
    /\ sleeps' = sleeps + 1
    /\ waited' = waited + 1
    /\ diff' = NoDiff
    /\ pc' = IF InRange(waited + 1) THEN "poll" ELSE "reload"
    /\ UNCHANGED <<file, bak, op, arg, saved, polls, there_are_differences,
                   cmdFailed, onlyEth0Dhcp4, result>>
    /\ UNCHANGED <<routeVars, unitVars>>

\* lines 123-127: the reload after the loop
Reload(i) ==
    LET ld == Load(file, bak, i) IN
    /\ pc = "reload"
    /\ file' = ld.file /\ bak' = ld.bak
    /\ cmdFailed' = (cmdFailed \/ ~i.statusOk \/ ~i.diffOk)
    /\ result' = CASE ld.res = "ok" -> Ok(ld.net)
                   [] ld.res = "err" -> Err(MsgLoad)
                   [] OTHER -> Panic
    /\ pc' = "done"
    /\ UNCHANGED <<op, arg, saved, waited, polls, sleeps, diff,
                   there_are_differences, onlyEth0Dhcp4>>
    /\ UNCHANGED <<routeVars, unitVars>>

Init ==
    /\ file \in InitFiles
    /\ bak = AbsentFile
    /\ EngineIdle
    /\ lock = IdleLock
    /\ req = EmptyMap
    /\ UnitIdle

\* the diffs the renderer is taken to report: any over the live interfaces,
\* in a run entered through save_and_apply only those over the configured ones
PolledDiffs == IF op = "save_and_apply" THEN ConfigDiffs ELSE Diffs

\* the steps of apply_with_diff
ApplyWithDiff ==
    \/ ApplyOk
    \/ ApplyFails
    \/ PollFails
    \/ pc = "poll" /\ \E d \in PolledDiffs : PollConverged(d)
    \/ pc = "poll" /\ \E d \in PolledDiffs : PollUnchecked(d)
    \/ pc = "poll" /\ \E d \in PolledDiffs : \E i \in LoadInputs(file) : PollLoadPanics(d, i)
    \/ pc = "poll" /\ \E d \in PolledDiffs : \E i \in LoadInputs(file) : PollRetry(d, i)
    \/ pc = "poll" /\ \E d \in PolledDiffs : \E i \in LoadInputs(file) : PollSoftAccept(d, i)
    \/ Sleep
    \/ pc = "reload" /\ \E i \in LoadInputs(file) : Reload(i)

\* a caller of apply_with_diff
Next ==
    \/ CallApplyWithDiff
    \/ ApplyWithDiff

Spec == Init /\ [][Next]_vars

\* a caller of save_and_apply
NextSave ==
    \/ \E net \in Networks : CallSaveAndApply(net)
    \/ \E io \in IoOutcomes : save_and_apply_save(io)
    \/ ApplyWithDiff

SpecSave == Init /\ [][NextSave]_vars

---------------------------------------------------------------------------
(* Claims about apply_with_diff *)

Done == pc = "done"

\* C1: apply_with_diff makes at most 15 polls, each followed by at most one
\* sleep, and then returns either a Network or an error.
C1_ReturnsNetworkOrError ==
    /\ polls <= SECONDS_TO_WAIT
    /\ sleeps <= polls
    /\ Done => result.kind \in {"ok", "err"}

\* an upper bound on the steps the caller has left
StepsLeft ==
    CASE pc = "idle" -> 2 * SECONDS_TO_WAIT + 4
      [] pc = "save" -> 2 * SECONDS_TO_WAIT + 3
      [] pc = "apply" -> 2 * SECONDS_TO_WAIT + 2
      [] pc = "poll" -> 2 * (SECONDS_TO_WAIT - waited) + 1
      [] pc = "sleep" -> 2 * (SECONDS_TO_WAIT - waited)
      [] pc = "reload" -> 1
      [] OTHER -> 0

\* Bounded termination of apply_with_diff: every step strictly lowers the
\* bound StepsLeft, only a finished call has no step left to take, and the
\* loop makes at most 15 polls, each followed by at most one sleep.
BoundedTermination ==
    /\ [](Done \/ ENABLED Next)
    /\ [][/\ StepsLeft' < StepsLeft
          /\ StepsLeft' >= 0
          /\ polls' <= SECONDS_TO_WAIT
          /\ sleeps' <= polls']_vars

\* the whole budget was used: 15 polls, 15 sleeps, then the reload returned
BudgetExhausted ==
    Done /\ polls = SECONDS_TO_WAIT /\ sleeps = SECONDS_TO_WAIT /\ result.kind = "ok"

\* a fragment flags a missing DHCP address
FlagsMissingDhcp(fr) == fr.m4 = "true" \/ fr.m6 = "true"

OnlyOtherDrift == [m4 |-> "absent", m6 |-> "absent", other |-> TRUE]

Eth0(settings) ==
    add_ethernet(NetworkNew, [name |-> "eth0", dhcp4 |-> settings.dhcp4,
                              dhcp6 |-> settings.dhcp6, accept_ra |-> settings.accept_ra])

NoDhcp == [dhcp4 |-> FALSE, dhcp6 |-> FALSE, accept_ra |-> "none"]

\* C2: a polled non-empty diff in which no interface flags
\* missing_dhcp4_address or missing_dhcp6_address ends the call at once with
\* the error "unchecked system_state differences": no sleep follows the poll,
\* no step is left to take, and the result is not a success.
C2_UncheckedIsFatal ==
    (/\ diff.ok
     /\ DOMAIN diff.data # {}
     /\ \A e \in DOMAIN diff.data : ~FlagsMissingDhcp(diff.data[e]))
    => /\ Done
       /\ result = Err(MsgUnchecked)
       /\ sleeps = polls - 1
       /\ ~ENABLED Next

\* eth0 with dhcp4=false, the diff reports an unrelated key for eth0
C2_Witness ==
    /\ Done
    /\ file = Provisioned(Eth0(NoDhcp))
    /\ diff = GotDiff([e \in {"eth0"} |-> OnlyOtherDrift])
    /\ result = Err(MsgUnchecked)

\* the persisted file configures eth0 with dhcp4=true
Eth0WithDhcp4(f) ==
    f.kind = "doc" /\ "eth0" \in DOMAIN f.ethernets /\ f.ethernets["eth0"].dhcp4

\* the run of scenario A so far: every non-empty diff polled was exactly
\* {eth0: missing_dhcp4_address: true}
ScenarioA == Eth0WithDhcp4(file) /\ onlyEth0Dhcp4

C4_RetryOnlyIfExclusivelyDhcp ==
    pc = "sleep"
    => /\ Decodable(file)
       /\ \A e \in DOMAIN diff.data :
            /\ FlagsMissingDhcp(diff.data[e])
            /\ ~diff.data[e].other
            /\ e \in interfaces_expecting_dhcp_address(Decode(file))

\* the soft-accept case of a poll: interfaces are flagged, none of them is
\* DHCP-expected in the persisted configuration
SoftAcceptCase ==
    /\ diff.ok
    /\ Decodable(file)
    /\ interfaces_with_misssing_dhcp_address(diff.data) # {}
    /\ interfaces_with_misssing_dhcp_address(diff.data)
            \cap interfaces_expecting_dhcp_address(Decode(file)) = {}

C29_EmptyFragmentsAreNoDiff ==
    diff.ok
    => /\ \A e \in DOMAIN diff.data : diff.data[e] # EmptyFragment
       /\ (\A e \in DOMAIN diff.data : diff.data[e] = EmptyFragment)
            => /\ ~there_are_differences
               /\ result # Err(MsgUnchecked)

\* C31: the missing-DHCP set computed from a polled diff contains an
\* interface iff its fragment has missing_dhcp4_address = true or
\* missing_dhcp6_address = true.
C31_MissingDhcpSet ==
    diff.ok
    => interfaces_with_misssing_dhcp_address(diff.data)
         = { e \in DOMAIN diff.data : FlagsMissingDhcp(diff.data[e]) }

\* dhcp4 is enabled, or dhcp6 is enabled and accept_ra is set to true
DhcpExpected(e) == e.dhcp4 \/ (e.dhcp6 /\ e.accept_ra = "true")

\* C32: the DHCP-expected set contains an interface iff dhcp4 is enabled, or
\* dhcp6 is enabled and accept_ra is set to true; the call sleeps on a poll
\* exactly when an interface flagged in it is DHCP-expected in the persisted
\* configuration; and the persisted configuration, hence the set, does not
\* change from one iteration of a run to the next.
C32_DhcpExpectedSet ==
    /\ [](/\ \A net \in Networks :
                interfaces_expecting_dhcp_address(net)
                    = { n \in DOMAIN net.ethernets : DhcpExpected(net.ethernets[n]) }
          /\ pc = "sleep"
                => /\ Decodable(file)
                   /\ \E e \in interfaces_with_misssing_dhcp_address(diff.data) :
                        /\ e \in DOMAIN Decode(file).ethernets
                        /\ DhcpExpected(Decode(file).ethernets[e])
          /\ (/\ diff.ok /\ Decodable(file)
              /\ interfaces_with_misssing_dhcp_address(diff.data) # {}
              /\ \A e \in interfaces_with_misssing_dhcp_address(diff.data) :
                    e \in DOMAIN Decode(file).ethernets
                    => ~DhcpExpected(Decode(file).ethernets[e]))
                => pc # "sleep")
    /\ [][(pc \in {"apply", "poll", "sleep", "reload"}) => (file' = file)]_vars

\* eth0 has dhcp6 with accept_ra true and no dhcp4: the second pending poll
\* is slept on like the first
C32_Witness ==
    /\ pc = "sleep" /\ polls = 2 /\ sleeps = 1
    /\ file = Provisioned(Eth0([dhcp4 |-> FALSE, dhcp6 |-> TRUE, accept_ra |-> "true"]))
    /\ diff = GotDiff(Eth0Dhcp4Pending)

\* C33: a renderer failure inside apply_with_diff makes the call return an
\* error, never a success and never a panic.
C33_FailuresAreErrors ==
    (Done /\ cmdFailed) => result.kind = "err"

\* C34 as stated: when all 15 polls report DHCP-pending drift, the call has
\* slept 15 times and returns success with the reloaded Network.
C34_ExhaustionSucceeds ==
    (Done /\ sleeps = SECONDS_TO_WAIT)
    => /\ polls = SECONDS_TO_WAIT
       /\ result = Ok(Decode(file))

\* C34 amended: the loop never makes a 16th poll; when all 15 polls report
\* DHCP-pending drift the call has slept 15 times, goes on to the reload and
\* returns what the reload returns: success with the reloaded Network, or the
\* load error when a renderer command fails during the reload.  It returns
\* no drift error.
C34_ExhaustionReturnsReload ==
    /\ polls <= 15 /\ sleeps <= 15
    /\ sleeps = 15
        => /\ polls = 15
           /\ pc \in {"reload", "done"}
           /\ Done => /\ result \in {Ok(Decode(file)), Err(MsgLoad)}
                      /\ result.kind = "err" => cmdFailed

---------------------------------------------------------------------------
(* Claims about save_and_apply *)

\* C6: save_and_apply returns success only if the save succeeded and a poll
\* within the budget observed an empty diff.
C6_SuccessOnlyIfSavedAndConverged ==
    (Done /\ result.kind = "ok")
    => saved = "ok" /\ diff = GotDiff(EmptyMap)

\* C7: when save_and_apply(N) returns success, the returned Network has the
\* persisted settings of N.
C7_SuccessReflectsMutation ==
    (Done /\ result.kind = "ok")
    => Settings(result.net) = Settings(arg)

\* C8: when the save fails with a file I/O error, save_and_apply does not
\* report success.
C8_SaveFailureIsSurfaced ==
    (Done /\ saved = "err")
    => result.kind # "ok"

---------------------------------------------------------------------------
(* The HTTP handlers of routes/ethernet.rs.  Each handler takes the store   *)
(* lock in its first statement and keeps the guard until it returns; it     *)
(* calls load_config, then (for a mutation) save_config and apply itself.   *)

Requests == {"r1", "r2"}

Handlers == {"show_all_ethernets", "create_ethernet", "delete_ethernet",
             "update_ethernet_dhcp4", "update_ethernet_dhcp6",
             "update_ethernet_accept_ra"}

\* handlers that change the persisted configuration
MutatingHandlers == {"create_ethernet", "update_ethernet_dhcp4",
                     "update_ethernet_dhcp6", "update_ethernet_accept_ra"}

\* the handlers that take an address literal (add/delete of an interface
\* address or of a nameserver address), add_ethernet_route, update_ethernet_mtu
\* and the read-only get_ethernet
AddressHandlers == {"add_ethernet_ip_address", "delete_ethernet_ip_address",
                    "add_ethernet_nameservers_address",
                    "delete_ethernet_nameservers_address"}

\* handlers whose first statement after lock() parses a literal and returns
\* BadRequest when it does not parse
LiteralHandlers == AddressHandlers \cup {"add_ethernet_route"}

\* handlers that return right after save_config
SaveOnlyHandlers == {"update_ethernet_accept_ra",
                     "add_ethernet_nameservers_address",
                     "delete_ethernet_nameservers_address",
                     "add_ethernet_route"}

\* handlers that answer after load_config without saving
LoadOnlyHandlers == {"show_all_ethernets", "get_ethernet", "delete_ethernet"}

\* the address literals of a request: a valid one, an invalid one, an empty one
Literals == {"10.0.0.1", "10.0.0.256", ""}

\* the literals a request carries: addr is ip_address / address / to
NoLiterals == [addr |-> "", via |-> "", from |-> ""]

\* an IpAddr that swallows every string
ParseAnything(lit) == [ok |-> TRUE, ip |-> lit]

\* the strings of the model that are IP addresses
ValidIps == {"10.0.0.1", "2001:db8::1", "::", "0.0.0.0"}

\* str::parse::<IpAddr>(): a string with a prefix length, such as "::/0", is
\* no IpAddr
parse_ip(lit) ==
    IF lit \in ValidIps THEN [ok |-> TRUE, ip |-> lit]
    ELSE [ok |-> FALSE, ip |-> "none"]

\* add_ethernet_route, lines 799-812: the Route handed to Ethernet::add_route;
\* a via or from that does not parse becomes None
HandlerRoute(l) ==
    [from |-> IF parse_ip(l.from).ok THEN parse_ip(l.from).ip ELSE "none",
     to   |-> parse_ip(l.addr).ip,
     via  |-> IF parse_ip(l.via).ok THEN parse_ip(l.via).ip ELSE "none"]

\* HttpResponse status codes
HttpOk == 200
BadRequest == 400
NotFound == 404
InternalServerError == 500

\* the <ethernet_name> path parameter
Target == "eth0"

\* a request that has entered its handler and not yet taken the lock
NewRequest(h, v, l) ==
    [handler |-> h, val |-> v, lit |-> l, at |-> "lock", loaded |-> NoNet,
     net |-> NoNet, route |-> NoRoute, steps |-> << >>, status |-> 0]

\* a change that starts from a default Ethernet instead of the loaded one
MutateFromDefault(h, v, net) ==
    LET fresh == add_ethernet(net, EthernetNew(Target))
    IN  CASE h = "update_ethernet_dhcp4" ->
                [fresh EXCEPT !.ethernets[Target].dhcp4 = v]
          [] h = "update_ethernet_dhcp6" ->
                [fresh EXCEPT !.ethernets[Target].dhcp6 = v]
          [] h = "update_ethernet_accept_ra" ->
                [fresh EXCEPT !.ethernets[Target].accept_ra =
                                IF v THEN "true" ELSE "false"]
          [] OTHER -> fresh

\* the handler's change to the loaded Network
mutate(h, v, net) ==
    CASE h = "create_ethernet" -> add_ethernet(net, EthernetNew(Target))
      [] h = "update_ethernet_dhcp4" ->
            [net EXCEPT !.ethernets[Target].dhcp4 = v]
      [] h = "update_ethernet_dhcp6" ->
            [net EXCEPT !.ethernets[Target].dhcp6 = v]
      [] h = "update_ethernet_accept_ra" ->
            [net EXCEPT !.ethernets[Target].accept_ra =
                            IF v THEN "true" ELSE "false"]
      [] OTHER -> net

\* the handler returns an HTTP response; its guard is dropped
Returned(q, code) == [q EXCEPT !.at = "returned", !.status = code]

\* a panic that leaves the mutex clean
PanicLeavesLockClean == [holder |-> "none", poisoned |-> FALSE]

\* the guard is dropped by a return / by an unwinding panic
Unlocked == [holder |-> "none", poisoned |-> lock.poisoned]
Poisoned == [holder |-> "none", poisoned |-> TRUE]

Receive(r, h, v, l) ==
    /\ r \notin DOMAIN req
    /\ req' = [x \in DOMAIN req \cup {r} |->
                 IF x = r THEN NewRequest(h, v, l) ELSE req[x]]
    /\ UNCHANGED <<file, bak, lock, engineVars, unitVars>>

\* a lock() that does not wait for the holder
AcquireWithoutWaiting(r) ==
    /\ r \in DOMAIN req
    /\ req[r].at = "lock"
    /\ IF lock.poisoned
       THEN /\ req' = [req EXCEPT ![r].at = "panicked"]
            /\ UNCHANGED lock
       ELSE /\ req' = [req EXCEPT ![r].at = "load"]
            /\ lock' = [lock EXCEPT !.holder = r]
    /\ UNCHANGED <<file, bak, engineVars, unitVars>>

\* netplan_store.netplan.lock().unwrap()
Acquire(r) ==
    /\ r \in DOMAIN req
    /\ req[r].at = "lock"
    /\ lock.holder = "none"
    /\ IF lock.poisoned
       THEN /\ req' = [req EXCEPT ![r].at = "panicked"]
            /\ UNCHANGED lock
       ELSE /\ req' = [req EXCEPT ![r].at = "load"]
            /\ lock' = [lock EXCEPT !.holder = r]
    /\ UNCHANGED <<file, bak, engineVars, unitVars>>

\* the handler's parse of its literal fails
Rejects(q) == q.handler \in LiteralHandlers /\ ~parse_ip(q.lit.addr).ok

\* the parse between lock() and load_config() returns BadRequest
HandlerParse(r) ==
    /\ r \in DOMAIN req
    /\ req[r].at = "load"
    /\ Rejects(req[r])
    /\ req' = [req EXCEPT ![r] = Returned(req[r], BadRequest)]
    /\ lock' = Unlocked
    /\ UNCHANGED <<file, bak, engineVars, unitVars>>

\* a lookup that finds every name
FoundAlways(net) == TRUE

\* the interface named by the request is in the loaded Network
Found(net) == Target \in DOMAIN net.ethernets

\* netplan.load_config() and the handler's code up to save_config
HandlerLoad(r, i) ==
    /\ r \in DOMAIN req
    /\ req[r].at = "load"
    /\ ~Rejects(req[r])
    /\ LET ld == Load(file, bak, i)
           q  == [req[r] EXCEPT !.steps = Append(@, "load")]
           h  == q.handler
       IN  /\ file' = ld.file
           /\ bak' = ld.bak
           /\ IF ld.res = "panic"
              THEN /\ req' = [req EXCEPT ![r] = [q EXCEPT !.at = "panicked"]]
                   /\ lock' = Poisoned
              ELSE IF ld.res = "err"
              THEN /\ req' = [req EXCEPT ![r] = Returned(q, InternalServerError)]
                   /\ lock' = Unlocked
              ELSE IF h = "show_all_ethernets"
              THEN /\ req' = [req EXCEPT ![r] = Returned(q, HttpOk)]
                   /\ lock' = Unlocked
              ELSE IF h # "create_ethernet" /\ ~Found(ld.net)
              THEN /\ req' = [req EXCEPT ![r] = Returned(q, NotFound)]
                   /\ lock' = Unlocked
              ELSE IF h \in LoadOnlyHandlers
              THEN /\ req' = [req EXCEPT ![r] = Returned(q, HttpOk)]
                   /\ lock' = Unlocked
              ELSE /\ req' = [req EXCEPT ![r] =
                                [q EXCEPT !.at = "save",
                                          !.loaded = ld.net,
                                          !.net = mutate(h, q.val, ld.net),
                                          !.route = IF h = "add_ethernet_route"
                                                    THEN HandlerRoute(q.lit)
                                                    ELSE NoRoute]]
                   /\ UNCHANGED lock
    /\ UNCHANGED <<engineVars, unitVars>>

\* netplan.save_config(&network)
HandlerSave(r, io) ==
    /\ r \in DOMAIN req
    /\ req[r].at = "save"
    /\ LET sv == save_config(file, bak, req[r].net, io)
           q  == [req[r] EXCEPT !.steps = Append(@, "save")]
       IN  /\ file' = sv.file
           /\ bak' = sv.bak
           /\ IF sv.res = "err"
              THEN /\ req' = [req EXCEPT ![r] = Returned(q, InternalServerError)]
                   /\ lock' = Unlocked
              ELSE IF q.handler \in SaveOnlyHandlers
              THEN /\ req' = [req EXCEPT ![r] = Returned(q, HttpOk)]
                   /\ lock' = Unlocked
              ELSE /\ req' = [req EXCEPT ![r] = [q EXCEPT !.at = "apply"]]
                   /\ UNCHANGED lock
    /\ UNCHANGED <<engineVars, unitVars>>

\* netplan.apply()
HandlerApply(r, applied) ==
    /\ r \in DOMAIN req
    /\ req[r].at = "apply"
    /\ LET q == [req[r] EXCEPT !.steps = Append(@, "apply")]
       IN  req' = [req EXCEPT ![r] = Returned(q, IF applied THEN HttpOk
                                                         ELSE InternalServerError)]
    /\ lock' = Unlocked
    /\ UNCHANGED <<file, bak, engineVars, unitVars>>

NextRoutes ==
    \/ \E r \in Requests, h \in Handlers, v \in BOOLEAN :
            Receive(r, h, v, NoLiterals)
    \/ \E r \in Requests : Acquire(r)
    \/ \E r \in Requests : \E i \in LoadInputs(file) : HandlerLoad(r, i)
    \/ \E r \in Requests, io \in IoOutcomes : HandlerSave(r, io)
    \/ \E r \in Requests, applied \in BOOLEAN : HandlerApply(r, applied)

SpecRoutes == Init /\ [][NextRoutes]_vars

\* the handlers that validate a literal or look the interface up, with the
\* inputs each of them reads
BoundaryRequests ==
    { [h |-> h, v |-> FALSE, l |-> [addr |-> a, via |-> "", from |-> ""]] :
        h \in AddressHandlers, a \in Literals }
    \cup { [h |-> "add_ethernet_route", v |-> FALSE,
            l |-> [addr |-> a, via |-> g, from |-> f]] :
            a \in Literals \ {""}, g \in Literals, f \in Literals \ {""} }
    \cup { [h |-> h, v |-> FALSE, l |-> NoLiterals] :
            h \in {"update_ethernet_mtu", "delete_ethernet", "get_ethernet"} }
    \cup { [h |-> "update_ethernet_dhcp4", v |-> v, l |-> NoLiterals] : v \in BOOLEAN }

NextBoundary ==
    \/ \E r \in Requests, b \in BoundaryRequests : Receive(r, b.h, b.v, b.l)
    \/ \E r \in Requests : Acquire(r)
    \/ \E r \in Requests : HandlerParse(r)
    \/ \E r \in Requests : \E i \in LoadInputs(file) : HandlerLoad(r, i)
    \/ \E r \in Requests, io \in IoOutcomes : HandlerSave(r, io)
    \/ \E r \in Requests, applied \in BOOLEAN : HandlerApply(r, applied)

SpecBoundary == Init /\ [][NextBoundary]_vars

\* a second interface an administrator may have configured beside eth0
Eth1Settings ==
    { [name |-> "eth1", dhcp4 |-> TRUE, dhcp6 |-> FALSE, accept_ra |-> "none"],
      [name |-> "eth1", dhcp4 |-> FALSE, dhcp6 |-> TRUE, accept_ra |-> "true"] }

\* Networks over eth0 and eth1, every ethernet stored under its own name
FrameNetworks ==
    { [version |-> 2, renderer |-> "NetworkManager", ethernets |-> m] :
        m \in { f \in UNION { [D -> Ethernets \cup Eth1Settings] : D \in SUBSET LiveIfaces } :
                    \A n \in DOMAIN f : f[n].name = n } }

\* the handlers that change one setting of the named interface, with
\* create_ethernet
FrameRequests ==
    { [h |-> h, v |-> v, l |-> NoLiterals] :
        h \in MutatingHandlers, v \in BOOLEAN }
    \cup { [h |-> "add_ethernet_ip_address", v |-> FALSE,
            l |-> [addr |-> "10.0.0.1", via |-> "", from |-> ""]] }

\* the service starts on a file an administrator provisioned
InitFrame ==
    /\ file \in { Provisioned(n) : n \in FrameNetworks }
    /\ bak = AbsentFile
    /\ EngineIdle
    /\ lock = IdleLock
    /\ req = EmptyMap
    /\ UnitIdle

NextFrame ==
    \/ \E r \in Requests, b \in FrameRequests : Receive(r, b.h, b.v, b.l)
    \/ \E r \in Requests : Acquire(r)
    \/ \E r \in Requests : \E i \in LoadInputs(file) : HandlerLoad(r, i)
    \/ \E r \in Requests, io \in IoOutcomes : HandlerSave(r, io)
    \/ \E r \in Requests, applied \in BOOLEAN : HandlerApply(r, applied)

SpecFrame == InitFrame /\ [][NextFrame]_vars

---------------------------------------------------------------------------
(* Claims about the handlers *)

\* the steps a, b, c occur in s in this order
InOrder(s, a, b, c) ==
    \E i, j, k \in 1..Len(s) :
        i < j /\ j < k /\ s[i] = a /\ s[j] = b /\ s[k] = c

\* C9: every mutating operation that reports success has saved the mutated
\* Network, then invoked the renderer's apply, then run the diff polling of
\* apply_with_diff, in this order.
C9_MutationsSaveApplyPoll ==
    \A r \in DOMAIN req :
        (req[r].handler \in MutatingHandlers /\ req[r].status = 200)
        => InOrder(req[r].steps, "save", "apply", "poll")

\* the request is between acquiring the store lock and returning
InsideLock(r) == r \in DOMAIN req /\ req[r].at \in {"load", "save", "apply"}

\* C10: at most one request is between acquiring the store lock and
\* returning; it is the lock holder, and every other request either waits
\* for the lock or has finished, so no other request loads, saves or applies
\* meanwhile.
C10_MutualExclusion ==
    \A r \in DOMAIN req :
        InsideLock(r)
        => /\ lock.holder = r
           /\ \A o \in DOMAIN req \ {r} :
                req[o].at \in {"lock", "returned", "panicked"}

\* one request has loaded and is about to save while the other one waits
C10_Witness ==
    \E r, o \in DOMAIN req :
        /\ r # o
        /\ req[r].at = "save"
        /\ req[r].steps = <<"load">>
        /\ req[o].at = "lock"
        /\ lock.holder = r

\* handlers that set one field of an existing ethernet
UpdateHandlers == {"update_ethernet_dhcp4", "update_ethernet_dhcp6",
                   "update_ethernet_accept_ra"}

\* the persisted document f holds the field written by the update h(v)
Reflects(f, h, v) ==
    /\ f.kind = "doc"
    /\ Target \in DOMAIN f.ethernets
    /\ CASE h = "update_ethernet_dhcp4" -> f.ethernets[Target].dhcp4 = v
         [] h = "update_ethernet_dhcp6" -> f.ethernets[Target].dhcp6 = v
         [] h = "update_ethernet_accept_ra" ->
                f.ethernets[Target].accept_ra = (IF v THEN "true" ELSE "false")
         [] OTHER -> FALSE

\* two updates of different fields of eth0 have both returned success
BothSucceeded(r, o) ==
    /\ r \in DOMAIN req /\ o \in DOMAIN req
    /\ req[r].handler \in UpdateHandlers /\ req[o].handler \in UpdateHandlers
    /\ req[r].handler # req[o].handler
    /\ req[r].status = 200 /\ req[o].status = 200

\* C11: once two concurrently issued updates of different fields have both
\* returned success, the persisted configuration reflects both.
C11_NoLostUpdate ==
    \A r, o \in Requests :
        BothSucceeded(r, o)
        => /\ Reflects(file, req[r].handler, req[r].val)
           /\ Reflects(file, req[o].handler, req[o].val)

\* some pair of updates has both returned success
C11_BothSucceed == \E r, o \in Requests : BothSucceeded(r, o)

---------------------------------------------------------------------------
(* Claims about validation, lookup and decode failures in the handlers *)

\* literals that are not an address
InvalidLiterals == {"10.0.0.256", ""}

\* an add/delete of an interface address or of a nameserver address whose
\* literal is not an address
InvalidAddress(q) == q.handler \in AddressHandlers /\ q.lit.addr \in InvalidLiterals

\* C21: a request to add or delete an interface address or a nameserver
\* address whose literal is invalid is answered 400; it never loads, saves or
\* applies, and while it holds the store the canonical file and the backup do
\* not change.  (A request that finds the lock poisoned by an earlier panic is
\* not served at all: it panics in lock() before its handler does anything.)
C21_InvalidAddressRejected ==
    /\ [](\A r \in DOMAIN req :
            InvalidAddress(req[r])
            => /\ req[r].steps = << >>
               /\ req[r].at \in {"lock", "load", "returned", "panicked"}
               /\ req[r].at = "returned" => req[r].status = 400
               /\ req[r].at = "panicked" => lock.poisoned)
    /\ [][\A r \in DOMAIN req :
            (InvalidAddress(req[r]) /\ lock.holder = r)
            => /\ file' = file /\ bak' = bak
               /\ req'[r] # req[r]
                    => req'[r].at = "returned" /\ req'[r].status = 400]_vars

\* an invalid interface address was answered 400 while a document is on disk
C21_Witness ==
    \E r \in DOMAIN req :
        /\ req[r].handler = "add_ethernet_ip_address"
        /\ req[r].lit.addr = "10.0.0.256"
        /\ req[r].at = "returned" /\ req[r].status = 400
        /\ req[r].steps = << >>
        /\ file.kind = "doc"

\* C22: an add-route request in which a supplied literal (to, via or from) is
\* not a valid address is answered 400 and never reaches the store: it does
\* not load, no route is built from it and nothing is saved.
C22_InvalidRouteRejected ==
    \A r \in DOMAIN req :
        (/\ req[r].handler = "add_ethernet_route"
         /\ \/ req[r].lit.addr = "10.0.0.256"
            \/ req[r].lit.via = "10.0.0.256"
            \/ req[r].lit.from = "10.0.0.256")
        => /\ req[r].steps = << >>
           /\ req[r].route = NoRoute
           /\ req[r].at = "returned" => req[r].status = 400

\* the handlers that look the named interface up before they act
LookupHandlers == {"add_ethernet_ip_address", "delete_ethernet_ip_address",
                   "add_ethernet_nameservers_address",
                   "delete_ethernet_nameservers_address", "add_ethernet_route",
                   "update_ethernet_mtu", "update_ethernet_dhcp4",
                   "update_ethernet_dhcp6", "update_ethernet_accept_ra",
                   "delete_ethernet"}

\* the persisted file decodes and does not hold the named interface
TargetAbsent == Decodable(file) /\ Target \notin DOMAIN file.ethernets

\* C23: a mutating request that names an interface absent from the loaded
\* Network is answered 404 (500 when the renderer fails during the load),
\* never 200 or 400; it neither saves nor applies, and the canonical file and
\* the backup are unchanged.  404 is given on this path only.
C23_AbsentInterfaceNotFound ==
    /\ [](\A r \in DOMAIN req :
            /\ req[r].status = 404
                => /\ req[r].at = "returned"
                   /\ req[r].steps = <<"load">>
                   /\ req[r].handler \in LookupHandlers \cup {"get_ethernet"}
            /\ (req[r].at \in {"save", "apply"} /\ req[r].handler \in LookupHandlers)
                => Target \in DOMAIN req[r].net.ethernets)
    /\ [][\A r \in DOMAIN req :
            (/\ req[r].handler \in LookupHandlers
             /\ req[r].at = "load"
             /\ req[r].lit.addr \notin InvalidLiterals \/ req[r].handler \notin LiteralHandlers
             /\ TargetAbsent
             /\ req'[r] # req[r])
            => /\ req'[r].at = "returned"
               /\ req'[r].status \in {404, 500}
               /\ req'[r].steps = <<"load">>
               /\ file' = file /\ bak' = bak]_vars

\* update_ethernet_mtu for an interface the file does not hold was answered 404
C23_Witness ==
    \E r \in DOMAIN req :
        /\ req[r].handler = "update_ethernet_mtu"
        /\ req[r].status = 404
        /\ TargetAbsent

\* C24: once delete_ethernet has reported success, the persisted file no
\* longer contains that Ethernet.
C24_DeleteIsDurable ==
    \A r \in DOMAIN req :
        (req[r].handler = "delete_ethernet" /\ req[r].status = 200)
        => file.kind = "doc" /\ Target \notin DOMAIN file.ethernets

ReachedSave(q) == q.at \in {"save", "apply"} \/ (q.at = "returned" /\ "save" \in {q.steps[i] : i \in 1..Len(q.steps)})

\* the handlers that change one setting of an interface that exists
SettingHandlers == UpdateHandlers \cup {"add_ethernet_ip_address"}

\* S differs from L at most in the setting of Target that handler h sets to v
Frame(L, S, h, v) ==
    /\ S.version = L.version
    /\ S.renderer = L.renderer
    /\ DOMAIN S.ethernets = DOMAIN L.ethernets
    /\ \A n \in DOMAIN L.ethernets \ {Target} : S.ethernets[n] = L.ethernets[n]
    /\ LET x == L.ethernets[Target]
           y == S.ethernets[Target]
       IN  /\ y.name = x.name
           /\ y.dhcp4 = IF h = "update_ethernet_dhcp4" THEN v ELSE x.dhcp4
           /\ y.dhcp6 = IF h = "update_ethernet_dhcp6" THEN v ELSE x.dhcp6
           /\ y.accept_ra = IF h = "update_ethernet_accept_ra"
                            THEN (IF v THEN "true" ELSE "false")
                            ELSE x.accept_ra

\* C38: a mutating request on an interface changes, in the Network it saves,
\* only the targeted setting of that interface: the version, the renderer,
\* the set of ethernet names, every other Ethernet and every other setting of
\* the interface are those of the Network that was loaded; and the file a
\* successful request leaves is the serialization of that Network.
C38_MutationFrame ==
    \A r \in DOMAIN req :
        (req[r].handler \in SettingHandlers /\ ReachedSave(req[r]))
        => /\ Frame(req[r].loaded, req[r].net, req[r].handler, req[r].val)
           /\ req[r].status = HttpOk => file = Serialize(req[r].net)

\* dhcp4 of eth0 is enabled; its dhcp6 and accept_ra and all of eth1 are kept
C38_Witness ==
    \E r \in DOMAIN req :
        /\ req[r].handler = "update_ethernet_dhcp4" /\ req[r].val
        /\ req[r].status = HttpOk
        /\ "eth1" \in DOMAIN req[r].loaded.ethernets
        /\ req[r].loaded.ethernets[Target]
             = [name |-> Target, dhcp4 |-> FALSE, dhcp6 |-> TRUE, accept_ra |-> "true"]
        /\ file = Serialize(req[r].net)

\* C39: create_ethernet on a name that exists in the loaded Network does not
\* fail and adds no second entry: the Network it saves has the names of the
\* loaded one and the created name, holds a default Ethernet under the
\* created name and every other Ethernet as loaded; the file a successful
\* request leaves is the serialization of that Network.
C39_CreateReplaces ==
    \A r \in DOMAIN req :
        (req[r].handler = "create_ethernet" /\ ReachedSave(req[r]))
        => LET L == req[r].loaded
               S == req[r].net
           IN  /\ S.version = L.version /\ S.renderer = L.renderer
               /\ DOMAIN S.ethernets = DOMAIN L.ethernets \cup {Target}
               /\ S.ethernets[Target] = EthernetNew(Target)
               /\ \A n \in DOMAIN L.ethernets \ {Target} :
                     S.ethernets[n] = L.ethernets[n]
               /\ req[r].status = HttpOk => file = Serialize(S)

\* eth0 was persisted with dhcp4 and dhcp6 enabled beside eth1; the create
\* succeeded and the file holds a default eth0 beside eth1
C39_Witness ==
    \E r \in DOMAIN req :
        /\ req[r].handler = "create_ethernet"
        /\ req[r].status = HttpOk
        /\ DOMAIN req[r].loaded.ethernets = {"eth0", "eth1"}
        /\ req[r].loaded.ethernets[Target].dhcp4
        /\ req[r].loaded.ethernets[Target].dhcp6
        /\ file.kind = "doc"
        /\ DOMAIN file.ethernets = {"eth0", "eth1"}
        /\ file.ethernets[Target] = DiskEth(EthernetNew(Target), FALSE)

\* a request is between its lock() and its return
InsideHandler(q) == q.at \in {"load", "save", "apply"}

\* C40: a request that panics while it holds the store lock poisons the
\* lock; once the lock is poisoned it stays poisoned, no request enters its
\* handler's body, performs a load, a save or an apply, or is answered, and
\* the canonical file and the backup are not written again.
C40_PoisonIsSticky ==
    [][/\ (\E r \in DOMAIN req : InsideHandler(req[r]) /\ req'[r].at = "panicked")
            => lock'.poisoned
       /\ lock.poisoned
            => /\ lock'.poisoned
               /\ file' = file /\ bak' = bak
               /\ \A r \in DOMAIN req' :
                    /\ ~InsideHandler(req'[r])
                    /\ r \in DOMAIN req
                        => /\ req'[r].steps = req[r].steps
                           /\ req'[r].status = req[r].status
                           /\ req'[r].at \in {req[r].at, "panicked"}
                    /\ r \notin DOMAIN req
                        => req'[r].steps = << >> /\ req'[r].status = 0]_vars

\* one request panicked in its load, a later one at its lock()
C40_Witness ==
    /\ lock.poisoned
    /\ \E r1, r2 \in DOMAIN req :
        /\ req[r1].at = "panicked" /\ req[r1].steps = <<"load">>
        /\ req[r2].at = "panicked" /\ req[r2].steps = << >>
        /\ req[r2].status = 0

---------------------------------------------------------------------------
(* The store operations called on their own: save_config, restore_config   *)
(* and load_config, each from any file the earlier ones left behind.       *)

StoreSave(net, io) ==
    LET sv == save_config(file, bak, net, io) IN
    /\ pc = "idle"
    /\ prev' = [file |-> file, bak |-> bak, hasEth0 |-> FALSE, io |-> io]
    /\ file' = sv.file /\ bak' = sv.bak
    /\ op' = "save_config" /\ arg' = net /\ saved' = sv.res
    /\ result' = NoResult /\ cmdFailed' = FALSE
    /\ UNCHANGED <<pc, waited, polls, sleeps, diff, there_are_differences,
                   onlyEth0Dhcp4, routeVars, dev, obs>>

StoreRestore ==
    LET rs == restore_config(file, bak) IN
    /\ pc = "idle"
    /\ prev' = [file |-> file, bak |-> bak, hasEth0 |-> FALSE, io |-> "ok"]
    /\ file' = rs.file
    /\ op' = "restore_config" /\ arg' = NoNet /\ saved' = "none"
    /\ result' = IF rs.res = "ok" THEN NoResult ELSE Panic
    /\ cmdFailed' = FALSE
    /\ UNCHANGED <<bak, pc, waited, polls, sleeps, diff, there_are_differences,
                   onlyEth0Dhcp4, routeVars, dev, obs>>

StoreLoad(i) ==
    LET ld == Load(file, bak, i) IN
    /\ pc = "idle"
    /\ prev' = [file |-> file, bak |-> bak, hasEth0 |-> i.hasEth0, io |-> i.io]
    /\ file' = ld.file /\ bak' = ld.bak
    /\ op' = "load_config" /\ arg' = NoNet /\ saved' = "none"
    /\ result' = CASE ld.res = "ok" -> Ok(ld.net)
                   [] ld.res = "err" -> Err(MsgLoad)
                   [] OTHER -> Panic
    /\ cmdFailed' = (~i.statusOk \/ ~i.diffOk)
    /\ UNCHANGED <<pc, waited, polls, sleeps, diff, there_are_differences,
                   onlyEth0Dhcp4, routeVars, dev, obs>>

NextStore ==
    \/ \E net \in Networks, io \in IoOutcomes : StoreSave(net, io)
    \/ StoreRestore
    \/ \E i \in LoadInputs(file) : StoreLoad(i)

SpecStore == Init /\ [][NextStore]_vars

---------------------------------------------------------------------------
(* Claims about the store operations *)

\* the persisted settings a document holds
FileSettings(f) ==
    [version |-> f.version, renderer |-> f.renderer,
     ethernets |-> [n \in DOMAIN f.ethernets |->
        [dhcp4 |-> f.ethernets[n].dhcp4, dhcp6 |-> f.ethernets[n].dhcp6,
         accept_ra |-> f.ethernets[n].accept_ra]]]

\* C12: save backs up before it overwrites: if the canonical file changed,
\* the backup slot holds its content from before the save; if the backup
\* failed, file and slot are unchanged; after a successful save the slot
\* holds the pre-save content, so a restore brings it back; and a restore
\* copies the slot over the canonical file.
C12_BackupBeforeOverwrite ==
    /\ op = "save_config"
        => /\ file # prev.file => bak = prev.file
           /\ (prev.io = "backup_fail" \/ prev.file.kind = "absent")
                => saved = "err" /\ file = prev.file /\ bak = prev.bak
           /\ saved = "ok"
                => /\ bak = prev.file
                   /\ file = Serialize(arg)
                   /\ restore_config(file, bak) = [res |-> "ok", file |-> prev.file]
    /\ (op = "restore_config" /\ result # Panic)
        => file = prev.bak /\ bak = prev.bak

\* a provisioned file with eth0 was replaced by a save; the slot holds it
C12_Witness ==
    /\ op = "save_config" /\ saved = "ok"
    /\ prev.file = Provisioned(Eth0(NoDhcp))
    /\ bak = prev.file
    /\ file # prev.file

\* the default Network of the bootstrap
Bootstrapped(hasEth0) ==
    IF hasEth0
    THEN add_ethernet(NetworkNew, [EthernetNew("eth0") EXCEPT !.dhcp4 = TRUE])
    ELSE NetworkNew

\* C13: when no persisted file exists (and the renderer answers), load
\* succeeds, returns the default Network, with eth0 dhcp4=true if a physical
\* eth0 is present and no ethernet otherwise, and has written the canonical
\* file with that Network.
C13_Bootstrap ==
    (op = "load_config" /\ prev.file = AbsentFile /\ ~cmdFailed /\ prev.io = "ok")
    => /\ result = Ok(Bootstrapped(prev.hasEth0))
       /\ file.kind = "doc"
       /\ FileSettings(file) = Settings(Bootstrapped(prev.hasEth0))

\* C14: after save(N) succeeds the canonical file has the top-level key
\* network, and a following load whose renderer invocations succeed returns
\* a Network with the persisted settings of N.
C14_SaveLoadRoundTrip ==
    (op = "save_config" /\ saved = "ok")
    => /\ file.wrapped
       /\ \A i \in LoadInputs(file) :
            (i.statusOk /\ i.diffOk)
            => /\ Load(file, bak, i).res = "ok"
               /\ Settings(Load(file, bak, i).net) = Settings(arg)

\* C15: after a load of an existing file has succeeded, saving the loaded
\* Network leaves the canonical file as it was before the load (the model
\* holds no routes, so nothing is left to normalise).
C15_SaveLoadFixedPoint ==
    (op = "load_config" /\ result.kind = "ok" /\ prev.file.kind = "doc")
    => save_config(file, bak, result.net, "ok").file = prev.file

\* C17: when the renderer's apply exits non-zero, the call returns the
\* apply error without any poll or sleep, and the canonical file still holds
\* the configuration that was just saved: it is not rolled back.
C17_ApplyFailureKeepsNewConfig ==
    (Done /\ result = Err(MsgApply))
    => /\ polls = 0 /\ sleeps = 0 /\ diff = NoDiff
       /\ saved = "ok" => file = Serialize(arg)

\* a save of eth0 succeeded, the apply failed, the new file is still there
C17_Witness ==
    /\ Done /\ result = Err(MsgApply)
    /\ saved = "ok"
    /\ "eth0" \in DOMAIN arg.ethernets
    /\ file = Serialize(arg)
    /\ file # bak

---------------------------------------------------------------------------
(* Routes of one Ethernet: models/route.rs, Ethernet::add_route, and the    *)
(* routes key as save_config writes it and load_config reads it.            *)

\* the most routes the table is grown to
MaxRoutes == 2

\* IpAddr::is_unspecified: "::" and "0.0.0.0"
is_unspecified(ip) == ip \in {"::", "0.0.0.0"}

\* Route values: to is an address, from and via are optional
Routes == [from : {"none", "10.0.0.1"}, to : {"2001:db8::1", "::", "0.0.0.0"},
           via : {"none", "10.0.0.1"}]

\* Route::id: format!("{}-{}-{}", ..), kept as its three components
RouteId(r) ==
    << IF r.from = "none" THEN "from" ELSE r.from,
       IF is_unspecified(r.to) THEN "default" ELSE r.to,
       IF r.via = "none" THEN "via" ELSE r.via >>

\* an insertion that stores a route under a new key when its id is taken
AddRouteBesideExisting(routes, r) ==
    LET k == IF RouteId(r) \in DOMAIN routes
             THEN <<RouteId(r)[1], RouteId(r)[2], "again">>
             ELSE RouteId(r)
    IN  [x \in DOMAIN routes \cup {k} |-> IF x = k THEN r ELSE routes[x]]

\* Ethernet::add_route: self.routes.insert(route.id(), route.clone())
add_route(routes, r) ==
    LET k == RouteId(r)
    IN  [x \in DOMAIN routes \cup {k} |-> IF x = k THEN r ELSE routes[x]]

\* serialize_ip / serialize_ip_option: an unspecified address is written "default"
serialize_ip(ip) ==
    IF ip = "none" THEN "none"
    ELSE IF is_unspecified(ip) THEN "default" ELSE ip

\* IpAddrVisitor::visit_str: "default" is read as the IPv4 unspecified address
deserialize_ip(str) == IF str = "default" THEN "0.0.0.0" ELSE str

\* a route body on disk
RouteBody(r) ==
    [from |-> serialize_ip(r.from), to |-> serialize_ip(r.to),
     via |-> serialize_ip(r.via)]

ParseRoute(b) ==
    [from |-> deserialize_ip(b.from), to |-> deserialize_ip(b.to),
     via |-> deserialize_ip(b.via)]

\* the routes key written by serde for routes: HashMap<String, Route> with
\* skip_serializing_if = "HashMap::is_empty": omitted, or a mapping keyed by id
serialize_routes(routes) ==
    IF DOMAIN routes = {} THEN NoRoutesKey
    ELSE [shape |-> "mapping",
          entries |-> { [key |-> k, body |-> RouteBody(routes[k])] : k \in DOMAIN routes }]

\* a routes key in the netplan layout: a sequence of route bodies
RouteSequence(rs) ==
    [shape |-> "sequence",
     entries |-> { [key |-> << >>, body |-> RouteBody(r)] : r \in rs }]

\* load_config, lines 231-247 and the decode: a sequence is turned into a
\* mapping keyed by the parsed route's id; a mapping is decoded as it is,
\* under the keys it was written with
load_routes(d) ==
    IF d.shape = "sequence"
    THEN LET parsed == { ParseRoute(e.body) : e \in d.entries }
         IN  [k \in { RouteId(r) : r \in parsed } |->
                CHOOSE r \in parsed : RouteId(r) = k]
    ELSE [k \in { e.key : e \in d.entries } |->
            ParseRoute((CHOOSE e \in d.entries : e.key = k).body)]

\* one more call of add_route with the triple of the call before it
Again(r) == dev.last = "add_route" /\ dev.lastRoute = r

AddRoute(r) ==
    /\ Cardinality(DOMAIN add_route(dev.routes, r)) <= MaxRoutes
    /\ dev' = [dev EXCEPT !.routes = add_route(dev.routes, r),
                          !.before = dev.routes,
                          !.lastRoute = r,
                          !.adds = IF Again(r) THEN 2 ELSE 1,
                          !.input = NoRoute, !.parsed = NoParsed,
                          !.last = "add_route"]
    /\ UNCHANGED <<file, bak, engineVars, routeVars, prev, obs>>

\* the routes key as save_config's serialization writes it
SaveRoutes ==
    /\ dev' = [dev EXCEPT !.disk = serialize_routes(dev.routes),
                          !.before = dev.routes,
                          !.lastRoute = NoRoute, !.adds = 0,
                          !.input = NoRoute, !.parsed = NoParsed,
                          !.last = "save_routes"]
    /\ UNCHANGED <<file, bak, engineVars, routeVars, prev, obs>>

\* the routes key is provisioned as a sequence before the service first runs
ProvisionRoutes(rs) ==
    /\ dev.last = "none"
    /\ dev' = [dev EXCEPT !.disk = RouteSequence(rs),
                          !.before = dev.routes,
                          !.lastRoute = NoRoute, !.adds = 0,
                          !.input = NoRoute, !.parsed = NoParsed,
                          !.last = "provision_routes"]
    /\ UNCHANGED <<file, bak, engineVars, routeVars, prev, obs>>

\* the routes key as load_config reads it
LoadRoutes ==
    /\ dev' = [dev EXCEPT !.routes = load_routes(dev.disk),
                          !.before = dev.routes,
                          !.lastRoute = NoRoute, !.adds = 0,
                          !.input = NoRoute, !.parsed = NoParsed,
                          !.last = "load_routes"]
    /\ UNCHANGED <<file, bak, engineVars, routeVars, prev, obs>>

\* the literal an input field is parsed from: "default" is replaced by "::/0"
InputLiteral(lit) == IF lit = "default" THEN "::/0" ELSE lit

\* Route::from_input_route: from, to and via are parsed in this order and the
\* first literal that does not parse returns the AddrParseError; an absent
\* from or via is None
from_input_route(i) ==
    LET f == IF i.from = "none" THEN [ok |-> TRUE, ip |-> "none"]
             ELSE parse_ip(InputLiteral(i.from))
        t == parse_ip(InputLiteral(i.to))
        v == IF i.via = "none" THEN [ok |-> TRUE, ip |-> "none"]
             ELSE parse_ip(InputLiteral(i.via))
    IN  IF f.ok /\ t.ok /\ v.ok
        THEN [ok |-> TRUE, route |-> [from |-> f.ip, to |-> t.ip, via |-> v.ip]]
        ELSE [ok |-> FALSE, route |-> NoRoute]

\* InputRoute values: to is mandatory, from and via are optional
InputRoutes ==
    [from : {"none", "default", "10.0.0.1", "10.0.0.256"},
     to : {"default", "2001:db8::1", "0.0.0.0", "10.0.0.256"},
     via : {"none", "default", "10.0.0.1"}]

\* one call of Route::from_input_route, before any route is added
FromInputRoute(i) ==
    /\ dev.last \in {"none", "from_input_route"}
    /\ dev' = [DeviceNew EXCEPT !.input = i,
                                !.parsed = from_input_route(i),
                                !.last = "from_input_route"]
    /\ UNCHANGED <<file, bak, engineVars, routeVars, prev, obs>>

\* the route sets an administrator may provision
ProvisionedRoutes == { rs \in SUBSET Routes : Cardinality(rs) \in 1..MaxRoutes }

\* no canonical file is involved in the route table
InitRouteTable == Init /\ file = AbsentFile

NextRouteTable ==
    \/ \E r \in Routes : AddRoute(r)
    \/ SaveRoutes
    \/ \E rs \in ProvisionedRoutes : ProvisionRoutes(rs)
    \/ LoadRoutes
    \/ \E i \in InputRoutes : FromInputRoute(i)

SpecRouteTable == InitRouteTable /\ [][NextRouteTable]_vars

---------------------------------------------------------------------------
(* Claims about routes *)

\* C16: in every routes key written by save, the routes are stored as a
\* sequence of route bodies, never as an id-keyed mapping.
C16_RoutesSavedAsSequence ==
    (dev.last = "save_routes" /\ DOMAIN dev.routes # {})
    => dev.disk.shape = "sequence"

\* the route of scenario C
ScenarioCRoute == [from |-> "none", to |-> "2001:db8::1", via |-> "none"]

\* C18: Route::id depends only on (from, to, via); a route added a second
\* time with the same triple overwrites its entry: the Ethernet then has
\* exactly one entry for it and the same routes as after the first call, and
\* adding any route twice gives the same table as adding it once.
C18_AddRouteIdempotent ==
    /\ \A r1, r2 \in Routes :
        (r1.from = r2.from /\ r1.to = r2.to /\ r1.via = r2.via)
        => RouteId(r1) = RouteId(r2)
    /\ \A r \in Routes :
        add_route(add_route(dev.routes, r), r) = add_route(dev.routes, r)
    /\ dev.last = "add_route"
        => /\ Cardinality({ k \in DOMAIN dev.routes :
                              dev.routes[k] = dev.lastRoute }) = 1
           /\ dev.routes[RouteId(dev.lastRoute)] = dev.lastRoute
           /\ dev.adds = 2 => dev.routes = dev.before

\* scenario C: the same route added twice, one entry afterwards
C18_Witness ==
    /\ dev.last = "add_route" /\ dev.adds = 2
    /\ dev.lastRoute = ScenarioCRoute
    /\ DOMAIN dev.routes = {RouteId(ScenarioCRoute)}

\* the routes held by a table
Held(routes) == { routes[k] : k \in DOMAIN routes }

\* C35: route ids are injective: a route added to an Ethernet is kept as an
\* entry of its own beside every structurally different route already there.
C35_RouteIdsInjective ==
    dev.last = "add_route"
    => Held(dev.routes) = Held(dev.before) \cup {dev.lastRoute}

\* C36: route serialization round-trips: the routes read back from the
\* routes key that save wrote for a table are the routes of that table,
\* equal in from, to and via.
C36_RouteRoundTrip ==
    (dev.last = "load_routes" /\ dev.disk = serialize_routes(dev.before))
    => Held(dev.routes) = Held(dev.before)

\* the supplied literals of an input route
Supplied(i) == {i.to} \cup ({i.from, i.via} \ {"none"})

\* what a literal stands for: "default" is the unspecified address
Meant(lit) == IF lit = "default" THEN "unspecified" ELSE lit

\* a route field as the input names it
Named(ip) == IF ip # "none" /\ is_unspecified(ip) THEN "unspecified" ELSE ip

\* C37: from_input_route returns an error only when a supplied literal is
\* neither "default" nor a valid IP address; otherwise it yields the Route
\* of the literals, with the unspecified address for "default", whose id
\* uses "default" for a default destination.
C37_FromInputAcceptsDefault ==
    dev.last = "from_input_route"
    => /\ dev.parsed.ok <=> Supplied(dev.input) \subseteq ValidIps \cup {"default"}
       /\ dev.parsed.ok
            => /\ Named(dev.parsed.route.from) = Named(Meant(dev.input.from))
               /\ Named(dev.parsed.route.to) = Named(Meant(dev.input.to))
               /\ Named(dev.parsed.route.via) = Named(Meant(dev.input.via))
               /\ dev.input.to = "default"
                    => RouteId(dev.parsed.route)[2] = "default"

---------------------------------------------------------------------------
(* MTU values: custom_types.rs BoundedU32 and the aliases of device.rs      *)

\* pub type MTU = BoundedU32<68, 64000>
MTU_MIN == 68
MTU_MAX == 64000

\* pub type MTUV6 = BoundedU32<1280, 64000>
MTUV6_MIN == 1280
MTUV6_MAX == 64000

\* the u32 values tried: both sides of every bound, zero, and a large value
\* (every u32 above 64000 takes the same branch of each comparison)
U32Values == {0, 30, 67, 68, 70, 1279, 1280, 1500, 64000, 64001, 2147483647}

\* a constructor whose bounds are exclusive
BoundedU32_new_exclusive(MIN, MAX, value) ==
    IF value > MIN /\ value < MAX THEN Some(value) ELSE None

\* BoundedU32::new
BoundedU32_new(MIN, MAX, value) ==
    IF value >= MIN /\ value <= MAX THEN Some(value) ELSE None

\* #[derive(serde::Deserialize)] on the tuple struct: the inner u32 is taken
\* as it comes, new is not called
BoundedU32_deserialize(MIN, MAX, value) == Some(value)

NewMtu(v) ==
    /\ dev' = [dev EXCEPT !.made = BoundedU32_new(MTU_MIN, MTU_MAX, v),
                          !.lastMtu = v, !.last = "mtu_new"]
    /\ UNCHANGED <<file, bak, engineVars, routeVars, prev, obs>>

NewMtuV6(v) ==
    /\ dev' = [dev EXCEPT !.made = BoundedU32_new(MTUV6_MIN, MTUV6_MAX, v),
                          !.lastMtu = v, !.last = "ipv6_mtu_new"]
    /\ UNCHANGED <<file, bak, engineVars, routeVars, prev, obs>>

\* an mtu decoded from a request body (InputDevice) or from the persisted
\* YAML (Ethernet) and stored in the Ethernet
DecodeMtu(v) ==
    /\ dev' = [dev EXCEPT !.mtu = BoundedU32_deserialize(MTU_MIN, MTU_MAX, v),
                          !.made = None, !.lastMtu = v, !.last = "mtu_decode"]
    /\ UNCHANGED <<file, bak, engineVars, routeVars, prev, obs>>

DecodeMtuV6(v) ==
    /\ dev' = [dev EXCEPT !.ipv6_mtu = BoundedU32_deserialize(MTUV6_MIN, MTUV6_MAX, v),
                          !.made = None, !.lastMtu = v, !.last = "ipv6_mtu_decode"]
    /\ UNCHANGED <<file, bak, engineVars, routeVars, prev, obs>>

InitMtu == Init /\ file = AbsentFile

NextMtu ==
    \/ \E v \in U32Values : NewMtu(v)
    \/ \E v \in U32Values : NewMtuV6(v)
    \/ \E v \in U32Values : DecodeMtu(v)
    \/ \E v \in U32Values : DecodeMtuV6(v)

SpecMtu == InitMtu /\ [][NextMtu]_vars

---------------------------------------------------------------------------
(* Claims about MTU values *)

\* C19: BoundedU32::new(v) returns a value iff MIN <= v <= MAX, and the
\* value reads back as v; MTU uses [68, 64000] and the IPv6 MTU uses
\* [1280, 64000]; 70 is accepted and 30 is rejected as an MTU.
C19_BoundedNew ==
    /\ dev.last = "mtu_new"
        => /\ dev.made.some <=> (68 <= dev.lastMtu /\ dev.lastMtu <= 64000)
           /\ dev.made.some => dev.made.v = dev.lastMtu
    /\ dev.last = "ipv6_mtu_new"
        => /\ dev.made.some <=> (1280 <= dev.lastMtu /\ dev.lastMtu <= 64000)
           /\ dev.made.some => dev.made.v = dev.lastMtu
    /\ BoundedU32_new(MTU_MIN, MTU_MAX, 70) = Some(70)
    /\ BoundedU32_new(MTU_MIN, MTU_MAX, 30) = None

\* the smallest MTU was constructed and reads back
C19_Witness ==
    /\ dev.last = "mtu_new"
    /\ dev.lastMtu = 68
    /\ dev.made = Some(68)

\* C20: each mtu present in an Ethernet lies in [68, 64000] and each
\* ipv6_mtu present lies in [1280, 64000], however the value entered:
\* constructor, decoded request body, decoded persisted YAML.
C20_MtuWithinBounds ==
    /\ dev.mtu.some => (68 <= dev.mtu.v /\ dev.mtu.v <= 64000)
    /\ dev.ipv6_mtu.some => (1280 <= dev.ipv6_mtu.v /\ dev.ipv6_mtu.v <= 64000)

---------------------------------------------------------------------------
(* The renderer's outputs and what the store makes of them: the status and  *)
(* diff parsing of netplan.rs, the per-ethernet adaptation and decoding of  *)
(* load_config, and the serialization of an Ethernet.  A YAML mapping is a  *)
(* function from its keys; every value is a set of strings.                 *)

\* get_dynamic_addresses_from_netplan_status: the flagged addresses of every
\* interface of type ethernet
get_dynamic_addresses_from_netplan_status(status) ==
    [n \in { m \in DOMAIN status : status[m].type = "ethernet" } |->
        status[n].addresses]

\* apply: Ok, or the error of run_command
apply(exitOk) == IF exitOk THEN "ok" ELSE "err"

\* get_all_ethernets: run_command(..).expect(..), then the interfaces printed
\* with a system_state key
get_all_ethernets(exitOk, out) ==
    IF ~exitOk THEN [res |-> "panic", names |-> {}]
    ELSE [res |-> "ok", names |-> { n \in DOMAIN out : out[n].hasState }]

\* the keys of a fragment
FragmentKeys(fr) ==
    (IF fr.m4 # "absent" THEN {"missing_dhcp4_address"} ELSE {})
    \cup (IF fr.m6 # "absent" THEN {"missing_dhcp6_address"} ELSE {})
    \cup (IF fr.other THEN {"other"} ELSE {})

\* a mapping with one more key
Insert(m, key, val) ==
    [k \in DOMAIN m \cup {key} |-> IF k = key THEN val ELSE m[k]]

\* the ethernet body an administrator provisions: every key the decoder
\* requires, the derived ones empty
ProvisionedBody ==
    [k \in {"dhcp4", "dhcp6", "routes", "addresses", "nameservers",
            "dynamic-addresses", "system-state"} |->
        IF k \in {"dhcp4", "dhcp6"} THEN {"false"} ELSE {}]

\* a serialization that writes the derived fields as well
SerializeWithDerived(e) ==
    [k \in {"dhcp4", "dhcp6", "mtu", "ipv6-mtu", "accept-ra", "nameservers",
            "dynamic-addresses", "system-state"} |->
        CASE k = "dhcp4" -> {IF e.dhcp4 THEN "true" ELSE "false"}
          [] k = "dhcp6" -> {"false"}
          [] k = "dynamic-addresses" -> e.dynamic_addresses
          [] k = "system-state" -> e.system_state
          [] OTHER -> {}]

\* Serialize for Ethernet (kebab-case keys): name, dynamic_addresses and
\* system_state are skipped, empty routes and addresses are skipped
serialize_ethernet(e) ==
    [k \in {"dhcp4", "dhcp6", "mtu", "ipv6-mtu", "accept-ra", "nameservers"} |->
        CASE k = "dhcp4" -> {IF e.dhcp4 THEN "true" ELSE "false"}
          [] k = "dhcp6" -> {"false"}
          [] OTHER -> {}]

\* load_config, lines 228-267: the name is inserted; when the interface's
\* entry of the diff has itself a key system_state holding a non-empty
\* mapping, that mapping is inserted under the key "system_state".  nested
\* says whether the fragment's further key is one named system_state.
adapt(n, body, d, nested) ==
    LET named == Insert(body, "name", {n}) IN
    IF n \in DOMAIN d /\ d[n].other /\ nested
    THEN Insert(named, "system_state", {"other"})
    ELSE named

\* the keys Deserialize for Ethernet requires (the Option fields may be absent)
RequiredKeys == {"name", "dhcp4", "dhcp6", "routes", "addresses", "nameservers",
                 "dynamic-addresses", "system-state"}

\* Deserialize for Ethernet: unknown keys are ignored
decode_ethernet(body) ==
    [name |-> CHOOSE x \in body["name"] : TRUE,
     dhcp4 |-> "true" \in body["dhcp4"],
     dynamic_addresses |-> body["dynamic-addresses"],
     system_state |-> body["system-state"]]

\* load_config on an existing file whose ethernets are bodies
load_ethernets(statusOk, status, diffOk, out, bodies, nested) ==
    LET dynamic == get_dynamic_addresses_from_netplan_status(status)
        got == get_diff(diffOk, out)
        adapted == [n \in DOMAIN bodies |-> adapt(n, bodies[n], got.data, nested)]
    IN  IF ~statusOk \/ ~got.ok
        THEN [res |-> "err", ethernets |-> EmptyMap]
        ELSE IF \E n \in DOMAIN adapted : ~(RequiredKeys \subseteq DOMAIN adapted[n])
        THEN [res |-> "panic", ethernets |-> EmptyMap]
        ELSE [res |-> "ok",
              ethernets |-> [n \in DOMAIN adapted |-> decode_ethernet(adapted[n])]]

\* the diff outputs tried: for eth0 no system_state key, an empty one, a
\* DHCP flag, a further key; for eth1 no system_state key or an empty one
ObsReports ==
    { NoState,
      [hasState |-> TRUE, state |-> EmptyFragment],
      [hasState |-> TRUE, state |-> [m4 |-> "true", m6 |-> "absent", other |-> FALSE]],
      [hasState |-> TRUE, state |-> [m4 |-> "absent", m6 |-> "absent", other |-> TRUE]] }

ObsDiffOutputs ==
    { o \in [LiveIfaces -> ObsReports] : o["eth1"].state = EmptyFragment }

\* the status outputs tried: eth1 is not an ethernet, or one with an address
StatusOutputs ==
    { o \in [LiveIfaces -> StatusEntries] :
        o["eth1"].type = "ethernet" => o["eth1"].addresses # {} }

\* an administrator provisions the file with the given ethernets
ObsProvision(D) ==
    /\ obs' = [ObsIdle EXCEPT !.last = "provision",
                              !.bodies = [n \in D |-> ProvisionedBody]]
    /\ UNCHANGED <<file, bak, engineVars, routeVars, prev, dev>>

ObsLoad(statusOk, status, diffOk, out, nested) ==
    LET ld == load_ethernets(statusOk, status, diffOk, out, obs.bodies, nested) IN
    /\ obs.last # "none"
    /\ obs' = [ObsIdle EXCEPT !.last = "load_config", !.exitOk = statusOk /\ diffOk,
                              !.status = status, !.out = out,
                              !.diff = get_diff(diffOk, out).data,
                              !.res = ld.res, !.loaded = ld.ethernets,
                              !.bodies = obs.bodies]
    /\ UNCHANGED <<file, bak, engineVars, routeVars, prev, dev>>

\* save_config of the loaded Network with the Ethernet e put into it
ObsSave(e) ==
    /\ obs.last = "load_config" /\ obs.res = "ok"
    /\ obs' = [ObsIdle EXCEPT !.last = "save_config", !.res = "ok", !.eth = e,
                              !.written = serialize_ethernet(e),
                              !.bodies = [n \in DOMAIN obs.loaded \cup {e.name} |->
                                            serialize_ethernet(IF n = e.name THEN e
                                                               ELSE obs.loaded[n])]]
    /\ UNCHANGED <<file, bak, engineVars, routeVars, prev, dev>>

ObsApply(exitOk) ==
    /\ obs' = [ObsIdle EXCEPT !.last = "apply", !.exitOk = exitOk,
                              !.res = apply(exitOk), !.bodies = obs.bodies]
    /\ UNCHANGED <<file, bak, engineVars, routeVars, prev, dev>>

ObsGetDiff(exitOk, out) ==
    /\ obs' = [ObsIdle EXCEPT !.last = "get_diff", !.exitOk = exitOk, !.out = out,
                              !.diff = get_diff(exitOk, out).data,
                              !.res = IF get_diff(exitOk, out).ok THEN "ok" ELSE "err",
                              !.bodies = obs.bodies]
    /\ UNCHANGED <<file, bak, engineVars, routeVars, prev, dev>>

ObsGetAllEthernets(exitOk, out) ==
    /\ obs' = [ObsIdle EXCEPT !.last = "get_all_ethernets", !.exitOk = exitOk,
                              !.out = out,
                              !.names = get_all_ethernets(exitOk, out).names,
                              !.res = get_all_ethernets(exitOk, out).res,
                              !.bodies = obs.bodies]
    /\ UNCHANGED <<file, bak, engineVars, routeVars, prev, dev>>

\* the Ethernets handed to save_config: any values of the derived fields
ObsEthernets ==
    [name : {"eth0"}, dhcp4 : BOOLEAN,
     dynamic_addresses : {{}, {"2410.0.0.5(dhcp)"}},
     system_state : {{}, {"missing_dhcp4_address"}}]

InitObserve == Init /\ file = AbsentFile

NextObserve ==
    \/ \E D \in SUBSET LiveIfaces : ObsProvision(D)
    \/ \E statusOk, diffOk, nested \in BOOLEAN :
       \E status \in StatusOutputs, out \in ObsDiffOutputs :
            ObsLoad(statusOk, status, diffOk, out, nested)
    \/ \E e \in ObsEthernets : ObsSave(e)
    \/ \E exitOk \in BOOLEAN : ObsApply(exitOk)
    \/ \E exitOk \in BOOLEAN, out \in ObsDiffOutputs : ObsGetDiff(exitOk, out)
    \/ \E exitOk \in BOOLEAN, out \in ObsDiffOutputs : ObsGetAllEthernets(exitOk, out)

SpecObserve == InitObserve /\ [][NextObserve]_vars

---------------------------------------------------------------------------
(* Claims about the renderer's outputs and the derived fields *)

LoadedOk == obs.last = "load_config" /\ obs.res = "ok"

\* C25: when the renderer's status reports an ethernet interface whose name
\* is absent from the persisted file, the Network returned by the load
\* contains an Ethernet entry with that name.
C25_LiveInterfaceIsLoaded ==
    LoadedOk
    => \A n \in LiveIfaces :
          obs.status[n].type = "ethernet" => n \in DOMAIN obs.loaded

\* the dynamic addresses the status of this load reports for n
ReportedAddresses(n) ==
    IF obs.status[n].type = "ethernet" THEN obs.status[n].addresses ELSE {}

\* the keys of the non-empty system_state fragment the diff of this load
\* reports for n
ReportedState(n) ==
    IF obs.out[n].hasState THEN FragmentKeys(obs.out[n].state) ELSE {}

\* C26: on every load, each returned Ethernet's dynamic_addresses and
\* system_state are exactly what the renderer reported for that interface
\* during that load, and empty when it reported none.
C26_DerivedFieldsFromRenderer ==
    LoadedOk
    => \A n \in DOMAIN obs.loaded :
          /\ obs.loaded[n].dynamic_addresses = ReportedAddresses(n)
          /\ obs.loaded[n].system_state = ReportedState(n)

\* the keys under which the name and the derived fields would be written
DerivedKeys == {"name", "dynamic-addresses", "dynamic_addresses",
                "system-state", "system_state"}

\* C27: whatever the values of an Ethernet's dynamic_addresses and
\* system_state, the body written for it holds neither of them nor the name,
\* and it is the body written for the same Ethernet with both fields empty.
C27_DerivedFieldsNotPersisted ==
    obs.last = "save_config"
    => /\ DOMAIN obs.written \cap DerivedKeys = {}
       /\ obs.bodies[obs.eth.name] = obs.written
       /\ \A e \in ObsEthernets :
            (e.name = obs.eth.name /\ e.dhcp4 = obs.eth.dhcp4)
            => serialize_ethernet(e) = obs.written

\* an Ethernet with both derived fields set was saved
C27_Witness ==
    /\ obs.last = "save_config"
    /\ obs.eth.dynamic_addresses # {}
    /\ obs.eth.system_state # {}
    /\ obs.written = obs.bodies["eth0"]

\* C28: when the renderer exits non-zero, each of apply, get_diff and
\* get_all_ethernets returns an error value and does not panic.
C28_NonZeroExitIsAnError ==
    (obs.last \in {"apply", "get_diff", "get_all_ethernets"} /\ ~obs.exitOk)
    => obs.res = "err"

=============================================================================
